---- MODULE Spec2Model ----
(***************************************************************************)
(* Model of the GitHub aggregation service (sclng-backend-test-v1):        *)
(* the shared local rate limiter, the admission checks of                  *)
(* FetchLastHundredRepositories, and the bounded fan-out / channel fan-in  *)
(* of GetRepositoriesLanguages.                                            *)
(*                                                                         *)
(* Time advances in whole hours; rate.Every(time.Hour) refills one token   *)
(* per hour, so token counts stay integral.                                *)
(***************************************************************************)
EXTENDS Integers, Sequences, FiniteSets, TLC

\* ------------------------------------------------------------------ bounds
MaxRepos == 2        \* longest search result / record list explored
MaxBurst == 3        \* largest remote quota (limiter burst) explored
MaxCeiling == 2      \* largest TASKS.MaxParallelTasksAllowed explored
MaxHours == 2        \* hours of refill explored
MaxConcRepos == 1    \* longest search result in the concurrent specification
MaxPasses == 2       \* calls of GetRepositoriesLanguages chained on one list

\* ------------------------------------------------------------- vocabulary
Requests == {"r1", "r2"}      \* HTTP requests that may be in flight
Nil == "nil"                  \* a nil pointer to a string
NilID == 0                    \* a nil pointer to the int64 repository ID
IDs == {1, 2}
Names == {"a", "b"}
OwnerLogin == "octo"
FullNameOf(nm) == "octo/" \o nm

\* A histogram (map[string]int) is a set of <<language, bytes>> pairs; a Go
\* nil map and an empty map are different values.
NilMap == [isNil |-> TRUE, kv |-> {}]
EmptyMap == [isNil |-> FALSE, kv |-> {}]
Hist(kv) == [isNil |-> FALSE, kv |-> kv]

\* What the remote ListLanguages answers for owner/repository.
LangResponse(owner, repository) ==
    IF repository = "a" THEN Hist({<<"Go", 10>>})
    ELSE Hist({<<"Java", 200>>, <<"HTML", 5>>})

\* ---------------------------------------------------- raw search entries
\* One element of RepositoriesSearchResult.Repositories (*github.Repository).
RawEntry(isNil, id, fullName, hasOwner, login, nm, lang, license) ==
    [isNil |-> isNil, id |-> id, fullName |-> fullName, hasOwner |-> hasOwner,
     login |-> login, name |-> nm, lang |-> lang, license |-> license]

GoodEntry(id, nm, hint) ==
    RawEntry(FALSE, id, FullNameOf(nm), TRUE, OwnerLogin, nm,
             IF hint THEN "Go" ELSE Nil, Nil)

NilEntry == RawEntry(TRUE, NilID, Nil, FALSE, Nil, Nil, Nil, Nil)
NoIDEntry == [GoodEntry(1, "a", TRUE) EXCEPT !.id = NilID]
NoFullNameEntry == [GoodEntry(1, "a", TRUE) EXCEPT !.fullName = Nil]
NoOwnerEntry == [GoodEntry(1, "a", TRUE) EXCEPT !.hasOwner = FALSE, !.login = Nil]
NoLoginEntry == [GoodEntry(1, "a", TRUE) EXCEPT !.login = Nil]
NoNameEntry == [GoodEntry(1, "a", TRUE) EXCEPT !.name = Nil]

\* Identity 1 comes under both names, so that two entries may share an identity.
GoodEntries == {GoodEntry(1, nm, h) : nm \in Names, h \in BOOLEAN}
               \cup {GoodEntry(2, "b", h) : h \in BOOLEAN}
BadEntries == {NilEntry, NoIDEntry, NoFullNameEntry, NoOwnerEntry, NoLoginEntry,
               NoNameEntry}
EntryPool == GoodEntries \cup BadEntries
ConcPool == {GoodEntry(1, "a", TRUE), GoodEntry(2, "b", FALSE)}

SeqsUpTo(S, n) == UNION {[1..k -> S] : k \in 0..n}

\* ------------------------------------------------------------ rate limiter
\* An admission that is refused whenever the limiter is empty.
AllowNNeedingToken(tok, b, n) ==
    IF n <= b /\ tok - n >= 0 /\ tok > 0
    THEN [ok |-> TRUE, tokens |-> tok - n]
    ELSE [ok |-> FALSE, tokens |-> tok]

\* An admission that looks at the burst only: any n <= burst is granted and
\* the limiter is emptied when fewer than n tokens are left.
AllowNWithinBurst(tok, b, n) ==
    IF n <= b
    THEN [ok |-> TRUE, tokens |-> IF tok - n >= 0 THEN tok - n ELSE 0]
    ELSE [ok |-> FALSE, tokens |-> tok]

\* An admission that grants every demand and takes nothing.
AllowNWithoutTaking(tok, b, n) == [ok |-> TRUE, tokens |-> tok]

\* Reserve-style consumption: any n <= burst is granted and taken, even when
\* fewer than n tokens are left.
ReserveN(tok, b, n) ==
    [ok |-> n <= b, tokens |-> IF n <= b THEN tok - n ELSE tok]

\* rate.Limiter.AllowN(now, n) on a limiter holding tok tokens with burst b:
\* granted, and n tokens taken, iff n <= b and n tokens are there; otherwise
\* refused and nothing taken.  Allow() is AllowN(now, 1).
AllowN(tok, b, n) ==
    IF n <= b /\ tok - n >= 0
    THEN [ok |-> TRUE, tokens |-> tok - n]
    ELSE [ok |-> FALSE, tokens |-> tok]

\* advance(): rate.Every(time.Hour) is one token per elapsed hour, capped at
\* burst.
TokensAfterRefill(tok, b, hours) == IF tok + hours > b THEN b ELSE tok + hours

\* --------------------------------------------- search adapter (pure part)
\* model.GithubRepository built from one validated raw entry.
Aggregate(e) ==
    [ID |-> e.id, FullName |-> e.fullName, Owner |-> e.login,
     Repository |-> e.name, License |-> IF e.license # Nil THEN e.license ELSE "",
     MostUsedLanguage |-> e.lang, Languages |-> NilMap]

\* The validation test without the two owner conditions.
MissingRequiredWithoutOwner(e) ==
    e.isNil \/ e.fullName = Nil \/ e.name = Nil

\* The validation test of the mapping loop.
MissingRequired(e) ==
    e.isNil \/ e.fullName = Nil \/ ~e.hasOwner \/ e.login = Nil \/ e.name = Nil

\* The mapping loop over repos.Repositories, entry by entry.  A nil entry is
\* dereferenced by the log statement of the failure branch, and a nil ID by
\* the construction of the record: both are nil-pointer panics.
RECURSIVE BuildFrom(_, _, _)
BuildFrom(raw, i, acc) ==
    IF i > Len(raw) THEN [status |-> "OK", repos |-> acc]
    ELSE LET e == raw[i] IN
         IF MissingRequired(e)
         THEN IF e.isNil THEN [status |-> "PANIC", repos |-> <<>>]
              ELSE [status |-> "INVALID_DATA_FOUND", repos |-> <<>>]
         ELSE IF e.id = NilID THEN [status |-> "PANIC", repos |-> <<>>]
         ELSE BuildFrom(raw, i + 1, Append(acc, Aggregate(e)))

BuildRepositories(raw) == BuildFrom(raw, 1, <<>>)

\* The count taken with the test inverted (records without a hint).
CountToLoadInverted(rs) ==
    Cardinality({i \in 1..Len(rs) : rs[i].MostUsedLanguage = Nil})

\* reposWithLanguagesToLoad
CountToLoad(rs) == Cardinality({i \in 1..Len(rs) : rs[i].MostUsedLanguage # Nil})

\* ------------------------------------------------- pure conversions
\* A string is the sequence of its atoms; Space is the whitespace atom.
Space == " "
FieldValues == {<<>>, <<"x">>, <<Space>>, <<"x", Space>>}
Queries == [Owner : FieldValues, License : FieldValues, Language : FieldValues]
EmptyQuery == [Owner |-> <<>>, License |-> <<>>, Language |-> <<>>]
NotBuilt == <<Nil>>
NotEncoded == <<>>

RECURSIVE TrimLeft(_)
TrimLeft(str) ==
    IF str # <<>> /\ Head(str) = Space THEN TrimLeft(Tail(str)) ELSE str

RECURSIVE TrimRight(_)
TrimRight(str) ==
    IF str # <<>> /\ str[Len(str)] = Space
    THEN TrimRight(SubSeq(str, 1, Len(str) - 1))
    ELSE str

\* strings.TrimSpace
TrimSpace(str) == TrimRight(TrimLeft(str))

\* githubQuery.WriteString(prefix + value + " ") when value != ""
Filter(prefix, value) ==
    IF value # <<>> THEN <<prefix>> \o value \o <<Space>> ELSE <<>>

\* The builder's content returned as it is.
ToGithubQueryUntrimmed(params, filterPublicRepositories) ==
    (IF filterPublicRepositories THEN <<"is:public", Space>> ELSE <<>>)
    \o Filter("owner:", params.Owner)
    \o Filter("license:", params.License)
    \o Filter("language:", params.Language)

\* SearchQuery.ToGithubQuery
ToGithubQuery(params, filterPublicRepositories) ==
    TrimSpace((IF filterPublicRepositories THEN <<"is:public", Space>> ELSE <<>>)
              \o Filter("owner:", params.Owner)
              \o Filter("license:", params.License)
              \o Filter("language:", params.Language))

\* Search entries that differ by their license only: no license object, a
\* license object whose key is empty, a license object with a key.
LicenseValues == {Nil, "", "mit"}
LicensedEntries == {[GoodEntry(1, "a", TRUE) EXCEPT !.license = l] : l \in LicenseValues}

\* encoding/json of model.GithubRepository: ID and MostUsedLanguage carry
\* json:"-", the other fields are always written (no omitempty).
Serialize(rec) ==
    [fullName |-> rec.FullName, owner |-> rec.Owner, repository |-> rec.Repository,
     license |-> rec.License, languages |-> rec.Languages]

\* ----------------------------------------------------------------- state
VARIABLES
    started,   \* main() has configured the limiter and the service
    burst,     \* githubRateLimiter.Burst()
    tokens,    \* tokens available in githubRateLimiter
    clock,     \* hours elapsed since start
    ceiling,   \* config.Tasks.MaxParallelTasksAllowed
    pc,        \* per request: position in FetchLastHundredRepositories
    raw,       \* per request: repos.Repositories returned by the search
    repos,     \* per request: repositoriesAggregated / repos
    idx,       \* per request: next index of the dispatch loop
    results,   \* per request: content of the results channel
    closed,    \* per request: close(results) has run
    slots,     \* per request: occupancy of the sized wait group
    worker,    \* per request, per index: position of the goroutine
    werr,      \* per request, per index: error returned by the worker
    outcome,   \* per request: error returned ("OK" for nil)
    returned,  \* per request: list returned
    nSearch,   \* per request: Search.Repositories calls made
    nLang,     \* per request: Repositories.ListLanguages calls made
    taken,     \* per request: tokens the request obtained from the limiter
    drained,   \* per request: the results read from the channel, in order
    granted,   \* tokens handed out by the limiter since the service started
    coreRemaining, \* rateLimits.Core.Remaining read by main()
    response,  \* per request: what the controller wrote (status, body)
    serr,      \* per request: kind of error the search call returned
    wrote,     \* per request, per index: results the goroutine sent
    input,     \* per request: the list GetRepositoriesLanguages was called with
    pass       \* per request: calls of GetRepositoriesLanguages made in a row

\* The inputs and outputs of the two pure conversions, explored on their own.
VARIABLES
    searchQuery,  \* a model.SearchQuery bound from the request
    githubQuery,  \* the string ToGithubQuery built for it
    licensed,     \* a search entry with or without a license object
    encoded       \* the JSON objects written for the records built from it

mappingVars == <<searchQuery, githubQuery, licensed, encoded>>

limiterVars == <<started, burst, tokens, clock, ceiling, coreRemaining, granted>>
fanoutVars == <<repos, idx, results, closed, input, pass, slots, worker, werr, wrote, drained>>
requestVars == <<pc, raw, outcome, returned, response, nSearch, serr, nLang, taken>>
vars == <<started, burst, tokens, clock, ceiling, coreRemaining, pc, raw, repos, idx, results,
          closed, input, pass, slots, worker, werr, wrote, outcome, returned, response, nSearch, serr, nLang, taken,
          drained, granted, mappingVars>>

Slots == 1..(MaxRepos + 1)
NoWorkers == [i \in Slots |-> "none"]
NoErrors == [i \in Slots |-> "OK"]
NoWrites == [i \in Slots |-> <<>>]

\* model.NewAPIError(err): the cases RATE_LIMITER_ERROR and INVALID_DATA_FOUND
\* have an empty body and Go does not fall through, so they leave the switch
\* and reach the final return.
NewAPIError(err) ==
    CASE err = "RATE_LIMIT_REACHED" -> [Code |-> "RATE_LIMIT_REACHED", Message |-> "rate limit"]
      [] err \in {"RATE_LIMITER_ERROR", "INVALID_DATA_FOUND"} ->
            [Code |-> "GENERIC_ERROR", Message |-> "internal"]
      [] OTHER -> [Code |-> err, Message |-> "internal"]

\* strings.Contains(err.Error(), "RATE_LIMIT_REACHED") over the errors the
\* service returns.
ContainsRateLimitReached(err) == err = "RATE_LIMIT_REACHED"

\* No response written yet, or none at all: gin.New() installs no Recovery
\* middleware, so a panic in the handler writes nothing.
NoResponse == [status |-> 0, body |-> <<>>]

\* Status written whatever the error.
RespondAlways500(err, list) ==
    IF err = "PANIC" THEN NoResponse
    ELSE IF err # "OK" THEN [status |-> 500, body |-> NewAPIError(err)]
    ELSE [status |-> 200, body |-> list]

\* apiController.GetRepositories after the service returned (err, list).
Respond(err, list) ==
    IF err = "PANIC" THEN NoResponse
    ELSE IF err # "OK"
    THEN IF ContainsRateLimitReached(err)
         THEN [status |-> 429, body |-> NewAPIError(err)]
         ELSE [status |-> 500, body |-> NewAPIError(err)]
    ELSE [status |-> 200, body |-> list]

InitService ==
    /\ started = FALSE
    /\ burst = 0
    /\ tokens = 0
    /\ clock = 0
    /\ ceiling = 0
    /\ pc = [r \in Requests |-> "idle"]
    /\ raw = [r \in Requests |-> <<>>]
    /\ repos = [r \in Requests |-> <<>>]
    /\ idx = [r \in Requests |-> 0]
    /\ results = [r \in Requests |-> <<>>]
    /\ closed = [r \in Requests |-> FALSE]
    /\ slots = [r \in Requests |-> 0]
    /\ worker = [r \in Requests |-> NoWorkers]
    /\ werr = [r \in Requests |-> NoErrors]
    /\ wrote = [r \in Requests |-> NoWrites]
    /\ input = [r \in Requests |-> <<>>]
    /\ pass = [r \in Requests |-> 0]
    /\ outcome = [r \in Requests |-> "OK"]
    /\ returned = [r \in Requests |-> <<>>]
    /\ nSearch = [r \in Requests |-> 0]
    /\ serr = [r \in Requests |-> "none"]
    /\ nLang = [r \in Requests |-> 0]
    /\ taken = [r \in Requests |-> 0]
    /\ drained = [r \in Requests |-> <<>>]
    /\ granted = 0
    /\ coreRemaining = 0
    /\ response = [r \in Requests |-> NoResponse]

Init ==
    /\ InitService
    /\ searchQuery = EmptyQuery
    /\ githubQuery = NotBuilt
    /\ licensed = GoodEntry(1, "a", TRUE)
    /\ encoded = NotEncoded

\* A start that leaves the new limiter full.
StartWithoutSeeding(limit, remaining, c) ==
    /\ ~started
    /\ tokens' = limit
    /\ started' = TRUE
    /\ coreRemaining' = remaining
    /\ burst' = limit
    /\ ceiling' = c
    /\ UNCHANGED <<clock, granted, fanoutVars, requestVars>>
    /\ UNCHANGED mappingVars

\* main(): the limiter is created with burst = Core.Limit and then asked for
\* Limit - Remaining tokens; the service is built only when that is granted
\* (main panics otherwise).
Start(limit, remaining, c) ==
    /\ ~started
    /\ LET seed == AllowN(limit, limit, limit - remaining)
       IN /\ seed.ok
          /\ tokens' = seed.tokens
    /\ started' = TRUE
    /\ coreRemaining' = remaining
    /\ burst' = limit
    /\ ceiling' = c
    /\ UNCHANGED <<clock, granted, fanoutVars, requestVars>>
    /\ UNCHANGED mappingVars

\* One hour passes: the limiter refills one token, up to burst.
Tick ==
    /\ started
    /\ clock < MaxHours
    /\ clock' = clock + 1
    /\ tokens' = TokensAfterRefill(tokens, burst, 1)
    /\ UNCHANGED <<started, burst, ceiling, coreRemaining, granted, fanoutVars, requestVars>>
    /\ UNCHANGED mappingVars

\* -------------------------------------------- FetchLastHundredRepositories
Finish(r, err, list) ==
    /\ pc' = [pc EXCEPT ![r] = "done"]
    /\ outcome' = [outcome EXCEPT ![r] = err]
    /\ returned' = [returned EXCEPT ![r] = list]
    /\ response' = [response EXCEPT ![r] = Respond(err, list)]

\* Entry that issues the search call whatever Allow() answers.
FetchStartIgnoringRefusal(r) ==
    /\ started
    /\ pc[r] = "idle"
    /\ LET a == AllowN(tokens, burst, 1)
       IN /\ tokens' = a.tokens
          /\ granted' = granted + (tokens - a.tokens)
          /\ taken' = [taken EXCEPT ![r] = @ + (tokens - a.tokens)]
    /\ nSearch' = [nSearch EXCEPT ![r] = @ + 1]
    /\ pc' = [pc EXCEPT ![r] = "searching"]
    /\ UNCHANGED <<started, burst, clock, ceiling, coreRemaining, raw, nLang, serr,
                   outcome, returned, response, fanoutVars>>
    /\ UNCHANGED mappingVars

\* Entry: Allow(); refused -> RATE_LIMIT_REACHED, granted -> the search call
\* is issued.
FetchStart(r) ==
    /\ started
    /\ pc[r] = "idle"
    /\ LET a == AllowN(tokens, burst, 1)
       IN /\ tokens' = a.tokens
          /\ granted' = granted + (tokens - a.tokens)
          /\ IF a.ok
             THEN /\ taken' = [taken EXCEPT ![r] = @ + 1]
                  /\ nSearch' = [nSearch EXCEPT ![r] = @ + 1]
                  /\ pc' = [pc EXCEPT ![r] = "searching"]
                  /\ UNCHANGED <<outcome, returned, response>>
             ELSE /\ Finish(r, "RATE_LIMIT_REACHED", <<>>)
                  /\ UNCHANGED <<taken, nSearch>>
    /\ UNCHANGED <<started, burst, clock, ceiling, coreRemaining, raw, nLang, serr,
                   fanoutVars>>
    /\ UNCHANGED mappingVars

\* A failing search that gives its token back to the limiter.
SearchFailsRefunding(r, kind) ==
    /\ pc[r] = "searching"
    /\ serr' = [serr EXCEPT ![r] = kind]
    /\ Finish(r, "FETCH_ERROR", <<>>)
    /\ tokens' = TokensAfterRefill(tokens, burst, 1)
    /\ UNCHANGED <<started, burst, clock, ceiling, coreRemaining, granted, raw, nSearch,
                   nLang, taken, fanoutVars>>
    /\ UNCHANGED mappingVars

\* The search call fails with an error of `kind` (a *github.RateLimitError or
\* any other): FETCH_ERROR whatever the kind, the limiter is not touched.
SearchFails(r, kind) ==
    /\ pc[r] = "searching"
    /\ serr' = [serr EXCEPT ![r] = kind]
    /\ Finish(r, "FETCH_ERROR", <<>>)
    /\ UNCHANGED <<limiterVars, raw, nSearch, nLang, taken, fanoutVars>>
    /\ UNCHANGED mappingVars

\* Admission that asks for the tokens one repository at a time (Allow() per
\* record) and so keeps what it obtained before the refusal.
SearchReturnsPerRepository(r, found) ==
    /\ pc[r] = "searching"
    /\ raw' = [raw EXCEPT ![r] = found]
    /\ LET built == BuildRepositories(found)
           n == CountToLoad(built.repos)
           got == IF n <= tokens THEN n ELSE tokens
       IN IF built.status # "OK"
          THEN /\ Finish(r, built.status, <<>>)
               /\ UNCHANGED <<tokens, granted, taken, fanoutVars>>
          ELSE /\ tokens' = tokens - got
               /\ granted' = granted + got
               /\ taken' = [taken EXCEPT ![r] = @ + got]
               /\ IF got < n
                  THEN /\ Finish(r, "RATE_LIMIT_REACHED", <<>>)
                       /\ UNCHANGED fanoutVars
                  ELSE /\ pc' = [pc EXCEPT ![r] = "dispatch"]
                       /\ repos' = [repos EXCEPT ![r] = built.repos]
                       /\ idx' = [idx EXCEPT ![r] = 1]
                       /\ results' = [results EXCEPT ![r] = <<>>]
                       /\ closed' = [closed EXCEPT ![r] = FALSE]
                       /\ input' = [input EXCEPT ![r] = built.repos]
                       /\ pass' = [pass EXCEPT ![r] = 1]
                       /\ slots' = [slots EXCEPT ![r] = 0]
                       /\ worker' = [worker EXCEPT ![r] = NoWorkers]
                       /\ werr' = [werr EXCEPT ![r] = NoErrors]
                       /\ wrote' = [wrote EXCEPT ![r] = NoWrites]
                       /\ drained' = [drained EXCEPT ![r] = <<>>]
                       /\ UNCHANGED <<outcome, returned, response>>
    /\ UNCHANGED <<started, burst, clock, ceiling, coreRemaining, nSearch, serr, nLang>>
    /\ UNCHANGED mappingVars

\* The search call answers `found`: mapping loop, count, AllowN(count), and
\* on admission the set-up of GetRepositoriesLanguages (fresh wait group and
\* channel).
SearchReturns(r, found) ==
    /\ pc[r] = "searching"
    /\ raw' = [raw EXCEPT ![r] = found]
    /\ LET built == BuildRepositories(found)
           n == CountToLoad(built.repos)
           a == AllowN(tokens, burst, n)
       IN IF built.status # "OK"
          THEN /\ Finish(r, built.status, <<>>)
               /\ UNCHANGED <<tokens, granted, taken, fanoutVars>>
          ELSE /\ tokens' = a.tokens
               /\ granted' = granted + (tokens - a.tokens)
               /\ IF ~a.ok
                  THEN /\ Finish(r, "RATE_LIMIT_REACHED", <<>>)
                       /\ UNCHANGED <<taken, fanoutVars>>
                  ELSE /\ taken' = [taken EXCEPT ![r] = @ + n]
                       /\ pc' = [pc EXCEPT ![r] = "dispatch"]
                       /\ repos' = [repos EXCEPT ![r] = built.repos]
                       /\ idx' = [idx EXCEPT ![r] = 1]
                       /\ results' = [results EXCEPT ![r] = <<>>]
                       /\ closed' = [closed EXCEPT ![r] = FALSE]
                       /\ input' = [input EXCEPT ![r] = built.repos]
                       /\ pass' = [pass EXCEPT ![r] = 1]
                       /\ slots' = [slots EXCEPT ![r] = 0]
                       /\ worker' = [worker EXCEPT ![r] = NoWorkers]
                       /\ werr' = [werr EXCEPT ![r] = NoErrors]
                       /\ wrote' = [wrote EXCEPT ![r] = NoWrites]
                       /\ drained' = [drained EXCEPT ![r] = <<>>]
                       /\ UNCHANGED <<outcome, returned, response>>
    /\ UNCHANGED <<started, burst, clock, ceiling, coreRemaining, nSearch, serr, nLang>>
    /\ UNCHANGED mappingVars

\* ------------------------------------------------ GetRepositoriesLanguages
\* A channel sized to the records that have a hint.
CapacityOfHinted(r) == CountToLoad(repos[r])

Capacity(r) == Len(repos[r])          \* make(chan ..., len(repos))

\* A plain wait group: Add never blocks.
CanAddAlways(occupied, limit) == TRUE

\* An Add that blocks with one slot still free.
CanAddLeavingOneFree(occupied, limit) == occupied + 1 < limit

\* swg.Add(): proceeds only while fewer than `limit` slots are occupied.
CanAdd(occupied, limit) == occupied < limit

\* Loop body that skips a record without MostUsedLanguage and sends nothing.
DispatchSkipSilently(r) ==
    /\ pc[r] = "dispatch"
    /\ idx[r] <= Len(repos[r])
    /\ repos[r][idx[r]].MostUsedLanguage = Nil
    /\ idx' = [idx EXCEPT ![r] = @ + 1]
    /\ UNCHANGED <<limiterVars, requestVars, repos, results, closed, input, pass, slots,
                   worker, werr, wrote, drained>>
    /\ UNCHANGED mappingVars

\* The dispatching path sends a nil histogram for a record without hint.
DispatchSkipSendingNil(r) ==
    /\ pc[r] = "dispatch"
    /\ idx[r] <= Len(repos[r])
    /\ repos[r][idx[r]].MostUsedLanguage = Nil
    /\ Len(results[r]) < Capacity(r)
    /\ results' = [results EXCEPT ![r] =
                     Append(@, [RepositoryID |-> repos[r][idx[r]].ID,
                                Languages |-> NilMap])]
    /\ idx' = [idx EXCEPT ![r] = @ + 1]
    /\ UNCHANGED <<limiterVars, requestVars, repos, closed, input, pass, slots, worker, werr, wrote,
                   drained>>
    /\ UNCHANGED mappingVars

\* Loop body, record without MostUsedLanguage: an empty histogram is sent on
\* the channel by the dispatching path itself.
DispatchSkip(r) ==
    /\ pc[r] = "dispatch"
    /\ idx[r] <= Len(repos[r])
    /\ repos[r][idx[r]].MostUsedLanguage = Nil
    /\ Len(results[r]) < Capacity(r)
    /\ results' = [results EXCEPT ![r] =
                     Append(@, [RepositoryID |-> repos[r][idx[r]].ID,
                                Languages |-> EmptyMap])]
    /\ idx' = [idx EXCEPT ![r] = @ + 1]
    /\ UNCHANGED <<limiterVars, requestVars, repos, closed, input, pass, slots, worker, werr, wrote,
                   drained>>
    /\ UNCHANGED mappingVars

\* The goroutine launched without swg.Add(): the wait group does not count it.
DispatchLaunchWithoutAdd(r) ==
    /\ pc[r] = "dispatch"
    /\ idx[r] <= Len(repos[r])
    /\ repos[r][idx[r]].MostUsedLanguage # Nil
    /\ slots' = slots
    /\ worker' = [worker EXCEPT ![r][idx[r]] = "spawned"]
    /\ idx' = [idx EXCEPT ![r] = @ + 1]
    /\ UNCHANGED <<limiterVars, requestVars, repos, results, closed, input, pass, werr, wrote,
                   drained>>
    /\ UNCHANGED mappingVars

\* One wait group for the whole process: Add counts the goroutines of every
\* call.
DispatchLaunchSharedPool(r) ==
    /\ pc[r] = "dispatch"
    /\ idx[r] <= Len(repos[r])
    /\ repos[r][idx[r]].MostUsedLanguage # Nil
    /\ CanAdd(slots["r1"] + slots["r2"], ceiling)
    /\ slots' = [slots EXCEPT ![r] = @ + 1]
    /\ worker' = [worker EXCEPT ![r][idx[r]] = "spawned"]
    /\ idx' = [idx EXCEPT ![r] = @ + 1]
    /\ UNCHANGED <<limiterVars, requestVars, repos, results, closed, input, pass, werr, wrote,
                   drained>>
    /\ UNCHANGED mappingVars

\* Loop body, record with MostUsedLanguage: swg.Add() then the goroutine is
\* launched.
DispatchLaunch(r) ==
    /\ pc[r] = "dispatch"
    /\ idx[r] <= Len(repos[r])
    /\ repos[r][idx[r]].MostUsedLanguage # Nil
    /\ CanAdd(slots[r], ceiling)
    /\ slots' = [slots EXCEPT ![r] = @ + 1]
    /\ worker' = [worker EXCEPT ![r][idx[r]] = "spawned"]
    /\ idx' = [idx EXCEPT ![r] = @ + 1]
    /\ UNCHANGED <<limiterVars, requestVars, repos, results, closed, input, pass, werr, wrote,
                   drained>>
    /\ UNCHANGED mappingVars

\* A goroutine that issues ListLanguages twice.
WorkerCallTwice(r, i) ==
    /\ worker[r][i] = "spawned"
    /\ worker' = [worker EXCEPT ![r][i] = "calling"]
    /\ nLang' = [nLang EXCEPT ![r] = @ + 2]
    /\ UNCHANGED <<limiterVars, pc, raw, outcome, returned, response, nSearch, serr, taken,
                   repos, idx, results, closed, input, pass, slots, werr, wrote, drained>>
    /\ UNCHANGED mappingVars

\* Goroutine: FetchLanguagesForSingleRepository issues ListLanguages.
WorkerCall(r, i) ==
    /\ worker[r][i] = "spawned"
    /\ worker' = [worker EXCEPT ![r][i] = "calling"]
    /\ nLang' = [nLang EXCEPT ![r] = @ + 1]
    /\ UNCHANGED <<limiterVars, pc, raw, outcome, returned, response, nSearch, serr, taken,
                   repos, idx, results, closed, input, pass, slots, werr, wrote, drained>>
    /\ UNCHANGED mappingVars

\* ListLanguages answers.
WorkerResponse(r, i) ==
    /\ worker[r][i] = "calling"
    /\ worker' = [worker EXCEPT ![r][i] = "answered"]
    /\ UNCHANGED <<limiterVars, requestVars, repos, idx, results, closed, input, pass, slots,
                   werr, wrote, drained>>
    /\ UNCHANGED mappingVars

\* HandleRequestErrors(err): a *github.RateLimitError asks the limiter for
\* Burst() tokens and yields RATE_LIMIT_REACHED when granted,
\* RATE_LIMITER_ERROR when refused; any other error yields FETCH_ERROR.
HandleRequestErrors(tok, b, kind) ==
    IF kind = "ratelimit"
    THEN LET a == AllowN(tok, b, b)
         IN [tokens |-> a.tokens,
             err |-> IF a.ok THEN "RATE_LIMIT_REACHED" ELSE "RATE_LIMITER_ERROR"]
    ELSE [tokens |-> tok, err |-> "FETCH_ERROR"]

ErrorKinds == {"ratelimit", "other"}

\* A failing goroutine that sends an empty histogram for its repository.
WorkerFailureSendingEmpty(r, i, kind) ==
    /\ worker[r][i] = "calling"
    /\ LET h == HandleRequestErrors(tokens, burst, kind)
       IN /\ tokens' = h.tokens
          /\ werr' = [werr EXCEPT ![r][i] = h.err]
          /\ taken' = [taken EXCEPT ![r] = @ + (tokens - h.tokens)]
          /\ granted' = granted + (tokens - h.tokens)
    /\ worker' = [worker EXCEPT ![r][i] = "failed"]
    /\ results' = [results EXCEPT ![r] =
                     Append(@, [RepositoryID |-> repos[r][i].ID, Languages |-> EmptyMap])]
    /\ wrote' = [wrote EXCEPT ![r][i] =
                     Append(@, [RepositoryID |-> repos[r][i].ID, Languages |-> EmptyMap])]
    /\ UNCHANGED <<started, burst, clock, ceiling, coreRemaining, pc, raw, outcome, returned, response,
                   nSearch, serr, nLang, repos, idx, closed, input, pass, slots, drained>>
    /\ UNCHANGED mappingVars

\* ListLanguages fails: the error is translated and returned to the goroutine,
\* which only logs it.
WorkerFailure(r, i, kind) ==
    /\ worker[r][i] = "calling"
    /\ LET h == HandleRequestErrors(tokens, burst, kind)
       IN /\ tokens' = h.tokens
          /\ werr' = [werr EXCEPT ![r][i] = h.err]
          /\ taken' = [taken EXCEPT ![r] = @ + (tokens - h.tokens)]
          /\ granted' = granted + (tokens - h.tokens)
    /\ worker' = [worker EXCEPT ![r][i] = "failed"]
    /\ UNCHANGED <<started, burst, clock, ceiling, coreRemaining, pc, raw, outcome, returned, response,
                   nSearch, serr, nLang, repos, idx, results, closed, input, pass, slots, wrote,
                   drained>>
    /\ UNCHANGED mappingVars

\* A goroutine that also stores the histogram in the record list itself.
WorkerSendWritingRecord(r, i) ==
    /\ worker[r][i] = "answered"
    /\ LET result == [RepositoryID |-> repos[r][i].ID,
                      Languages |-> LangResponse(repos[r][i].Owner,
                                                 repos[r][i].Repository)]
       IN IF closed[r]
          THEN /\ worker' = [worker EXCEPT ![r][i] = "panicked"]
               /\ UNCHANGED <<results, wrote>>
          ELSE /\ Len(results[r]) < Capacity(r)
               /\ results' = [results EXCEPT ![r] = Append(@, result)]
               /\ wrote' = [wrote EXCEPT ![r][i] = Append(@, result)]
               /\ worker' = [worker EXCEPT ![r][i] = "sent"]
    /\ repos' = [repos EXCEPT ![r][i].Languages =
                    LangResponse(repos[r][i].Owner, repos[r][i].Repository)]
    /\ UNCHANGED <<limiterVars, requestVars, idx, closed, input, pass, slots, werr,
                   drained>>
    /\ UNCHANGED mappingVars

\* ch <- {RepositoryID, Languages}: blocks while the buffer is full, and
\* panics when the channel is closed.
WorkerSend(r, i) ==
    /\ worker[r][i] = "answered"
    /\ LET result == [RepositoryID |-> repos[r][i].ID,
                      Languages |-> LangResponse(repos[r][i].Owner,
                                                 repos[r][i].Repository)]
       IN IF closed[r]
          THEN /\ worker' = [worker EXCEPT ![r][i] = "panicked"]
               /\ UNCHANGED <<results, wrote>>
          ELSE /\ Len(results[r]) < Capacity(r)
               /\ results' = [results EXCEPT ![r] = Append(@, result)]
               /\ wrote' = [wrote EXCEPT ![r][i] = Append(@, result)]
               /\ worker' = [worker EXCEPT ![r][i] = "sent"]
    /\ UNCHANGED <<limiterVars, requestVars, repos, idx, closed, input, pass, slots, werr,
                   drained>>
    /\ UNCHANGED mappingVars

\* A goroutine that returns without swg.Done().
WorkerDoneWithoutRelease(r, i) ==
    /\ worker[r][i] \in {"sent", "failed"}
    /\ worker' = [worker EXCEPT ![r][i] = "finished"]
    /\ slots' = slots
    /\ UNCHANGED <<limiterVars, requestVars, repos, idx, results, closed, input, pass, werr, wrote,
                   drained>>
    /\ UNCHANGED mappingVars

\* swg.Done() called after the send only, not on the error return.
WorkerDoneOnSuccessOnly(r, i) ==
    /\ worker[r][i] \in {"sent", "failed"}
    /\ worker' = [worker EXCEPT ![r][i] = "finished"]
    /\ slots' = [slots EXCEPT ![r] = IF worker[r][i] = "sent" THEN @ - 1 ELSE @]
    /\ UNCHANGED <<limiterVars, requestVars, repos, idx, results, closed, input, pass, werr, wrote,
                   drained>>
    /\ UNCHANGED mappingVars

\* defer swg.Done(): the slot is released when the goroutine returns.
WorkerDone(r, i) ==
    /\ worker[r][i] \in {"sent", "failed"}
    /\ worker' = [worker EXCEPT ![r][i] = "finished"]
    /\ slots' = [slots EXCEPT ![r] = @ - 1]
    /\ UNCHANGED <<limiterVars, requestVars, repos, idx, results, closed, input, pass, werr, wrote,
                   drained>>
    /\ UNCHANGED mappingVars

\* The channel closed as soon as the loop ends, without swg.Wait().
CloseResultsWithoutWait(r) ==
    /\ pc[r] = "dispatch"
    /\ idx[r] > Len(repos[r])
    /\ closed' = [closed EXCEPT ![r] = TRUE]
    /\ pc' = [pc EXCEPT ![r] = "merge"]
    /\ UNCHANGED <<limiterVars, raw, outcome, returned, response, nSearch, serr, nLang, taken,
                   repos, idx, results, slots, worker, werr, wrote, drained, input,
                   pass>>
    /\ UNCHANGED mappingVars

\* swg.Wait() returns once every slot is released; close(results).
CloseResults(r) ==
    /\ pc[r] = "dispatch"
    /\ idx[r] > Len(repos[r])
    /\ slots[r] = 0
    /\ closed' = [closed EXCEPT ![r] = TRUE]
    /\ pc' = [pc EXCEPT ![r] = "merge"]
    /\ UNCHANGED <<limiterVars, raw, outcome, returned, response, nSearch, serr, nLang, taken,
                   repos, idx, results, slots, worker, werr, wrote, drained, input,
                   pass>>
    /\ UNCHANGED mappingVars

\* langMap after `for result := range results`: each identity maps to the
\* histogram of the last result drained for it.
LangMapIDs(ch) == {ch[k].RepositoryID : k \in 1..Len(ch)}
FirstIndexOf(ch, id) ==
    CHOOSE k \in 1..Len(ch) :
        /\ ch[k].RepositoryID = id
        /\ \A m \in 1..Len(ch) : ch[m].RepositoryID = id => k <= m
LastIndexOf(ch, id) ==
    CHOOSE k \in 1..Len(ch) :
        /\ ch[k].RepositoryID = id
        /\ \A m \in 1..Len(ch) : ch[m].RepositoryID = id => m <= k
LangMap(ch) == [id \in LangMapIDs(ch) |-> ch[LastIndexOf(ch, id)].Languages]

\* Records rebuilt in arrival order of the results.
MergeByArrival(rs, ch) ==
    [k \in 1..Len(ch) |->
        LET j == CHOOSE j \in 1..Len(rs) : rs[j].ID = ch[k].RepositoryID
        IN [rs[j] EXCEPT !.Languages = ch[k].Languages]]

\* The k-th result is assigned to the k-th record.
MergeByPosition(rs, ch) ==
    [i \in 1..Len(rs) |->
        IF i <= Len(ch) THEN [rs[i] EXCEPT !.Languages = ch[i].Languages]
        ELSE rs[i]]

\* for i := range repos { if lang, found := langMap[repos[i].ID]; found {...} }
MergeLanguages(rs, ch) ==
    [i \in 1..Len(rs) |->
        IF rs[i].ID \in LangMapIDs(ch)
        THEN [rs[i] EXCEPT !.Languages = LangMap(ch)[rs[i].ID]]
        ELSE rs[i]]

\* A merge that reports the error of a failed goroutine to the caller.
MergeReportingWorkerError(r) ==
    /\ pc[r] = "merge"
    /\ repos' = [repos EXCEPT ![r] = MergeLanguages(repos[r], results[r])]
    /\ drained' = [drained EXCEPT ![r] = results[r]]
    /\ results' = [results EXCEPT ![r] = <<>>]
    /\ IF \E i \in Slots : werr[r][i] # "OK"
       THEN Finish(r, werr[r][CHOOSE i \in Slots : werr[r][i] # "OK"], <<>>)
       ELSE Finish(r, "OK", repos'[r])
    /\ UNCHANGED <<limiterVars, raw, nSearch, serr, nLang, taken, idx, closed, input, pass, slots,
                   worker, werr, wrote>>
    /\ UNCHANGED mappingVars

\* Drain, merge, return to FetchLastHundredRepositories, which returns the
\* list with a nil error.
Merge(r) ==
    /\ pc[r] = "merge"
    /\ repos' = [repos EXCEPT ![r] = MergeLanguages(repos[r], results[r])]
    /\ drained' = [drained EXCEPT ![r] = results[r]]
    /\ results' = [results EXCEPT ![r] = <<>>]
    /\ Finish(r, "OK", repos'[r])
    /\ UNCHANGED <<limiterVars, raw, nSearch, serr, nLang, taken, idx, closed, input, pass, slots,
                   worker, werr, wrote>>
    /\ UNCHANGED mappingVars

\* The response is written; the handler is ready for the next request.
Reset(r) ==
    /\ pc[r] = "done"
    /\ pc' = [pc EXCEPT ![r] = "idle"]
    /\ raw' = [raw EXCEPT ![r] = <<>>]
    /\ repos' = [repos EXCEPT ![r] = <<>>]
    /\ idx' = [idx EXCEPT ![r] = 0]
    /\ results' = [results EXCEPT ![r] = <<>>]
    /\ closed' = [closed EXCEPT ![r] = FALSE]
    /\ input' = [input EXCEPT ![r] = <<>>]
    /\ pass' = [pass EXCEPT ![r] = 0]
    /\ slots' = [slots EXCEPT ![r] = 0]
    /\ worker' = [worker EXCEPT ![r] = NoWorkers]
    /\ werr' = [werr EXCEPT ![r] = NoErrors]
    /\ wrote' = [wrote EXCEPT ![r] = NoWrites]
    /\ serr' = [serr EXCEPT ![r] = "none"]
    /\ response' = [response EXCEPT ![r] = NoResponse]
    /\ outcome' = [outcome EXCEPT ![r] = "OK"]
    /\ returned' = [returned EXCEPT ![r] = <<>>]
    /\ nSearch' = [nSearch EXCEPT ![r] = 0]
    /\ nLang' = [nLang EXCEPT ![r] = 0]
    /\ taken' = [taken EXCEPT ![r] = 0]
    /\ drained' = [drained EXCEPT ![r] = <<>>]
    /\ UNCHANGED limiterVars
    /\ UNCHANGED mappingVars

\* ------------------------------- GetRepositoriesLanguages called directly
\* Records as FetchLastHundredRepositories builds them, and the lists a caller
\* of the GithubService interface may pass.
RecordPool == {Aggregate(e) : e \in GoodEntries}

\* s.GetRepositoriesLanguages(list), called on the service itself (as
\* TestGetRepositoriesLanguages does): fresh wait group and channel.
EnrichStart(r, list) ==
    /\ started
    /\ pc[r] = "idle"
    /\ pc' = [pc EXCEPT ![r] = "dispatch"]
    /\ repos' = [repos EXCEPT ![r] = list]
    /\ input' = [input EXCEPT ![r] = list]
    /\ pass' = [pass EXCEPT ![r] = 1]
    /\ idx' = [idx EXCEPT ![r] = 1]
    /\ UNCHANGED <<limiterVars, raw, outcome, returned, response, nSearch, serr,
                   nLang, taken, results, closed, slots, worker, werr, wrote,
                   drained, mappingVars>>

\* r.MostUsedLanguage == nil for every record of the list.
NoneHinted(list) == \A i \in 1..Len(list) : list[i].MostUsedLanguage = Nil

\* A list returned without any hint is passed to GetRepositoriesLanguages
\* again.
EnrichAgain(r) ==
    /\ pc[r] = "done"
    /\ outcome[r] = "OK"
    /\ NoneHinted(returned[r])
    /\ pass[r] >= 1
    /\ pass[r] < MaxPasses
    /\ pc' = [pc EXCEPT ![r] = "dispatch"]
    /\ repos' = [repos EXCEPT ![r] = returned[r]]
    /\ input' = [input EXCEPT ![r] = returned[r]]
    /\ pass' = [pass EXCEPT ![r] = @ + 1]
    /\ idx' = [idx EXCEPT ![r] = 1]
    /\ results' = [results EXCEPT ![r] = <<>>]
    /\ closed' = [closed EXCEPT ![r] = FALSE]
    /\ slots' = [slots EXCEPT ![r] = 0]
    /\ worker' = [worker EXCEPT ![r] = NoWorkers]
    /\ werr' = [werr EXCEPT ![r] = NoErrors]
    /\ wrote' = [wrote EXCEPT ![r] = NoWrites]
    /\ drained' = [drained EXCEPT ![r] = <<>>]
    /\ nLang' = [nLang EXCEPT ![r] = 0]
    /\ returned' = [returned EXCEPT ![r] = <<>>]
    /\ response' = [response EXCEPT ![r] = NoResponse]
    /\ UNCHANGED <<limiterVars, raw, outcome, nSearch, serr, taken, mappingVars>>

\* ------------------------------------------------ the pure conversions
\* seachQuery.ToGithubQuery(true), the argument of Search.Repositories.
BuildQuery ==
    /\ githubQuery = NotBuilt
    /\ githubQuery' = ToGithubQuery(searchQuery, TRUE)
    /\ UNCHANGED <<limiterVars, requestVars, fanoutVars, searchQuery, licensed,
                   encoded>>

\* The mapping loop on the one entry, then c.JSON(http.StatusOK, repos).
EncodeEntry ==
    /\ encoded = NotEncoded
    /\ LET built == BuildRepositories(<<licensed>>)
       IN encoded' = [k \in 1..Len(built.repos) |-> Serialize(built.repos[k])]
    /\ UNCHANGED <<limiterVars, requestVars, fanoutVars, searchQuery, githubQuery,
                   licensed>>

\* ---------------------------------------------------------- specifications
Configure(ceilings) ==
    \E limit \in 1..MaxBurst, remaining \in 0..MaxBurst, c \in ceilings :
        /\ remaining <= limit
        /\ Start(limit, remaining, c)

RequestStep(r, pool, maxLen) ==
    \/ FetchStart(r)
    \/ \E kind \in ErrorKinds : SearchFails(r, kind)
    \/ /\ pc[r] = "searching"
       /\ \E found \in SeqsUpTo(pool, maxLen) : SearchReturns(r, found)
    \/ DispatchSkip(r)
    \/ DispatchLaunch(r)
    \/ \E i \in Slots : WorkerCall(r, i)
    \/ \E i \in Slots : WorkerResponse(r, i)
    \/ \E i \in Slots, kind \in ErrorKinds : WorkerFailure(r, i, kind)
    \/ \E i \in Slots : WorkerSend(r, i)
    \/ \E i \in Slots : WorkerDone(r, i)
    \/ CloseResults(r)
    \/ Merge(r)
    \/ Reset(r)

\* One request at a time, any search result, within one refill period.
Next ==
    \/ Configure(1..MaxCeiling)
    \/ RequestStep("r1", EntryPool, MaxRepos)

Spec == Init /\ [][Next]_vars

\* Two requests served concurrently on the shared limiter, hours passing.
NextConc ==
    \/ Configure({MaxCeiling})
    \/ Tick
    \/ \E r \in Requests : RequestStep(r, ConcPool, MaxConcRepos)

SpecConc == Init /\ [][NextConc]_vars

\* One request at a time, hours passing while it is served.
NextHours ==
    \/ Configure({MaxCeiling})
    \/ Tick
    \/ RequestStep("r1", ConcPool, MaxRepos)

SpecHours == Init /\ [][NextHours]_vars

\* Two requests served concurrently by a service started with a full limiter,
\* under any ceiling, hours passing.
NextPools ==
    \/ \E c \in 1..MaxCeiling : Start(MaxBurst, MaxBurst, c)
    \/ Tick
    \/ \E r \in Requests : RequestStep(r, ConcPool, MaxConcRepos)

SpecPools == Init /\ [][NextPools]_vars

\* The steps of one call of GetRepositoriesLanguages: dispatching loop,
\* goroutines, close, drain and merge.
EnrichProgress(r) ==
    \/ DispatchSkip(r)
    \/ DispatchLaunch(r)
    \/ \E i \in Slots : WorkerCall(r, i)
    \/ \E i \in Slots : WorkerResponse(r, i)
    \/ \E i \in Slots, kind \in ErrorKinds : WorkerFailure(r, i, kind)
    \/ \E i \in Slots : WorkerSend(r, i)
    \/ \E i \in Slots : WorkerDone(r, i)
    \/ CloseResults(r)
    \/ Merge(r)

\* GetRepositoriesLanguages called on any list of records, then on its own
\* output, on a limiter left full at start.
NextEnrich ==
    \/ \E c \in 1..MaxCeiling : Start(MaxBurst, MaxBurst, c)
    \/ /\ pc["r1"] = "idle"
       /\ \E list \in SeqsUpTo(RecordPool, MaxRepos) : EnrichStart("r1", list)
    \/ EnrichAgain("r1")
    \/ EnrichProgress("r1")
    \/ Reset("r1")

SpecEnrich == Init /\ [][NextEnrich]_vars

\* One record with a hint and one without: what the dispatching loop and the
\* goroutines distinguish.
LivePool == {Aggregate(GoodEntry(1, "a", TRUE)), Aggregate(GoodEntry(2, "b", FALSE))}

NextEnrichLive ==
    \/ \E c \in 1..MaxCeiling : Start(MaxBurst, MaxBurst, c)
    \/ /\ pc["r1"] = "idle"
       /\ \E list \in SeqsUpTo(LivePool, MaxRepos) : EnrichStart("r1", list)
    \/ EnrichProgress("r1")
    \/ Reset("r1")

\* The Go scheduler runs every goroutine that can run, and every outbound
\* call eventually returns: a call in progress keeps taking steps.
SpecEnrichLive ==
    Init /\ [][NextEnrichLive]_vars /\ WF_vars(EnrichProgress("r1"))

\* The two conversions applied to every query and every licensed entry.
InitMapping ==
    /\ InitService
    /\ searchQuery \in Queries
    /\ githubQuery = NotBuilt
    /\ licensed \in LicensedEntries
    /\ encoded = NotEncoded

NextMapping ==
    \/ BuildQuery
    \/ EncodeEntry

SpecMapping == InitMapping /\ [][NextMapping]_vars

TypeOK ==
    /\ started \in BOOLEAN
    /\ burst \in 0..(MaxBurst + 1)
    /\ clock \in 0..MaxHours
    /\ \A r \in Requests :
        /\ pc[r] \in {"idle", "searching", "dispatch", "merge", "done"}
        /\ slots[r] \in 0..(MaxRepos + 1)
        /\ Len(results[r]) <= MaxRepos + 1


\* ------------------------------------------------------- claim vocabulary
\* An entry carrying the four required fields.
WellFormed(e) ==
    /\ ~e.isNil /\ e.id # NilID /\ e.fullName # Nil
    /\ e.hasOwner /\ e.login # Nil /\ e.name # Nil

AllWellFormed(found) == \A k \in 1..Len(found) : WellFormed(found[k])

\* An entry without full name, owner, owner login or repository name.
LacksNaming(e) ==
    ~e.isNil /\ (e.fullName = Nil \/ ~e.hasOwner \/ e.login = Nil \/ e.name = Nil)

\* An entry whose only missing field is the identity.
LacksIdentity(e) ==
    /\ ~e.isNil /\ e.id = NilID /\ e.fullName # Nil
    /\ e.hasOwner /\ e.login # Nil /\ e.name # Nil

OnlyWellFormedBefore(found, k) == \A j \in 1..(k - 1) : WellFormed(found[j])

HintCount(found) == Cardinality({k \in 1..Len(found) : found[k].lang # Nil})

\* Goroutines that hold a slot of the sized wait group.
Active(r) ==
    {i \in Slots : worker[r][i] \in {"spawned", "calling", "answered", "failed", "sent"}}
InFlight(r) == {i \in Slots : worker[r][i] = "calling"}

NoWorkerFailed(r) == \A i \in Slots : werr[r][i] = "OK"
Succeeded(r) == pc[r] = "done" /\ outcome[r] = "OK"

\* The identity of record i is carried by no other record of the list.
UniqueIdentity(list, i) == \A j \in 1..Len(list) : j # i => list[j].ID # list[i].ID

\* ------------------------------------------------------------------ claims
\* C1: when Allow() is refused at the start of FetchLastHundredRepositories
\* (no token is left), the request ends with RATE_LIMIT_REACHED and an empty
\* list, no search and no language call is made, and the tokens are unchanged.
C1_PreSearchRefusal ==
    [][\A r \in Requests :
        (pc[r] = "idle" /\ pc'[r] # "idle" /\ tokens < 1)
        => /\ pc'[r] = "done"
           /\ outcome'[r] = "RATE_LIMIT_REACHED"
           /\ returned'[r] = <<>>
           /\ nSearch'[r] = 0
           /\ nLang'[r] = 0
           /\ worker'[r] = NoWorkers
           /\ tokens' = tokens]_vars

C1_Witness ==
    \E r \in Requests :
        /\ pc[r] = "done" /\ outcome[r] = "RATE_LIMIT_REACHED"
        /\ nSearch[r] = 0 /\ nLang[r] = 0 /\ tokens = 0 /\ burst >= 1

\* C2: when the search answers well-formed entries of which more carry a
\* language hint than there are tokens at the AllowN check, the request ends
\* with RATE_LIMIT_REACHED and an empty list and no goroutine is launched and
\* no language call made for any repository of the batch.
C2_AllOrNothingAdmission ==
    /\ [][\A r \in Requests :
            (/\ pc[r] = "searching" /\ pc'[r] # "searching"
             /\ AllWellFormed(raw'[r])
             /\ HintCount(raw'[r]) > tokens)
            => /\ pc'[r] = "done"
               /\ outcome'[r] = "RATE_LIMIT_REACHED"
               /\ returned'[r] = <<>>
               /\ nLang'[r] = 0
               /\ worker'[r] = NoWorkers]_vars
    /\ [](\A r \in Requests :
            (pc[r] = "done" /\ outcome[r] # "OK")
            => returned[r] = <<>> /\ nLang[r] = 0 /\ worker[r] = NoWorkers)

C2_Witness ==
    \E r \in Requests :
        /\ pc[r] = "done" /\ outcome[r] = "RATE_LIMIT_REACHED" /\ nSearch[r] = 1
        /\ AllWellFormed(raw[r]) /\ HintCount(raw[r]) = 2 /\ tokens = 0
        /\ returned[r] = <<>>

\* C3: whatever the interleaving of the requests asking the shared limiter,
\* the tokens available are never negative and the tokens granted since the
\* start never exceed the capacity plus what was refilled; with no refill
\* (clock = 0) they never exceed the capacity.
C3_NoOverAdmission ==
    /\ tokens >= 0
    /\ granted <= burst + clock
    /\ (clock = 0 => granted <= burst)

C3_Witness ==
    \E r \in Requests, q \in Requests :
        /\ r # q /\ clock = 0 /\ burst >= 2
        /\ pc[r] = "dispatch" /\ taken[r] = 2
        /\ pc[q] = "done" /\ outcome[q] = "RATE_LIMIT_REACHED"
        /\ tokens = 0 /\ granted = burst

\* C4: the enrichment admission takes the tokens of all hinted repositories
\* at once when that many are available, and takes nothing when they are not:
\* after a refused admission the tokens are what they were before the call.
C4_AllowNAllOrNothing ==
    [][\A r \in Requests :
        (/\ pc[r] = "searching" /\ pc'[r] # "searching"
         /\ outcome'[r] # "FETCH_ERROR"
         /\ AllWellFormed(raw'[r]))
        => \/ /\ HintCount(raw'[r]) <= tokens
              /\ tokens' = tokens - HintCount(raw'[r])
              /\ pc'[r] = "dispatch"
           \/ /\ HintCount(raw'[r]) > tokens
              /\ tokens' = tokens
              /\ pc'[r] = "done"]_vars

C4_Witness ==
    \E r \in Requests :
        /\ pc[r] = "done" /\ outcome[r] = "RATE_LIMIT_REACHED"
        /\ taken[r] = 1 /\ HintCount(raw[r]) = 2 /\ tokens = 1 /\ granted = 1

\* C5: a search result in which an entry lacks its full name, its owner, its
\* owner login or its repository name, the entries before it being valid,
\* ends the request with INVALID_DATA_FOUND and an empty list, at whatever
\* position the entry is, and no language call is made.
C5_BatchValidation ==
    \A r \in Requests :
        (\E k \in 1..Len(raw[r]) :
            LacksNaming(raw[r][k]) /\ OnlyWellFormedBefore(raw[r], k))
        => /\ pc[r] = "done"
           /\ outcome[r] = "INVALID_DATA_FOUND"
           /\ returned[r] = <<>>
           /\ nLang[r] = 0
           /\ worker[r] = NoWorkers

C5_Witness ==
    \E r \in Requests :
        /\ Len(raw[r]) = 2
        /\ WellFormed(raw[r][1])
        /\ ~raw[r][2].hasOwner
        /\ outcome[r] = "INVALID_DATA_FOUND" /\ returned[r] = <<>>

\* C6: a search entry whose identity is absent (the entries before it being
\* valid) ends the request with the error INVALID_DATA_FOUND, as an entry
\* without full name, owner or name does.
C6_IdentityValidated ==
    \A r \in Requests :
        (\E k \in 1..Len(raw[r]) :
            LacksIdentity(raw[r][k]) /\ OnlyWellFormedBefore(raw[r], k))
        => pc[r] = "done" /\ outcome[r] = "INVALID_DATA_FOUND"

\* C7: when the request succeeds and no language call failed, every returned
\* record with a language hint whose identity no other record shares carries
\* the histogram answered for its own owner and repository name.
C7_EnrichmentResult ==
    \A r \in Requests :
        (Succeeded(r) /\ NoWorkerFailed(r))
        => \A i \in 1..Len(returned[r]) :
              (returned[r][i].MostUsedLanguage # Nil /\ UniqueIdentity(returned[r], i))
              => returned[r][i].Languages =
                    LangResponse(returned[r][i].Owner, returned[r][i].Repository)

C7_Witness ==
    \E r \in Requests :
        /\ Succeeded(r) /\ NoWorkerFailed(r) /\ Len(returned[r]) = 2
        /\ returned[r][1].ID = 1 /\ returned[r][1].Languages = Hist({<<"Go", 10>>})
        /\ returned[r][2].ID = 2
        /\ returned[r][2].Languages = Hist({<<"Java", 200>>, <<"HTML", 5>>})
        /\ drained[r][1].RepositoryID = 2

\* C8 as stated: a record without language hint never has a goroutine or a
\* language call, is not counted in the tokens asked for the enrichment, and
\* is returned with an empty, non-nil histogram.
C8_NoHintEmptyAlways ==
    /\ [][\A r \in Requests :
            (pc[r] = "searching" /\ pc'[r] = "dispatch")
            => tokens - tokens' = HintCount(raw'[r])]_vars
    /\ [](\A r \in Requests :
            /\ \A i \in 1..Len(repos[r]) :
                  repos[r][i].MostUsedLanguage = Nil => worker[r][i] = "none"
            /\ nLang[r] <= HintCount(raw[r])
            /\ Succeeded(r)
               => \A i \in 1..Len(returned[r]) :
                     returned[r][i].MostUsedLanguage = Nil
                     => returned[r][i].Languages = EmptyMap)

\* A hinted record of the list carries the identity of record i.
SharesIdentityWithHinted(list, i) ==
    \E j \in 1..Len(list) :
        j # i /\ list[j].ID = list[i].ID /\ list[j].MostUsedLanguage # Nil

\* C8 amended: as stated, the empty histogram being that of every record
\* without hint whose identity no hinted record of the batch shares.
C8_NoHintEmpty ==
    /\ [][\A r \in Requests :
            (pc[r] = "searching" /\ pc'[r] = "dispatch")
            => tokens - tokens' = HintCount(raw'[r])]_vars
    /\ [](\A r \in Requests :
            /\ \A i \in 1..Len(repos[r]) :
                  repos[r][i].MostUsedLanguage = Nil => worker[r][i] = "none"
            /\ nLang[r] <= HintCount(raw[r])
            /\ Succeeded(r)
               => \A i \in 1..Len(returned[r]) :
                     (/\ returned[r][i].MostUsedLanguage = Nil
                      /\ ~SharesIdentityWithHinted(returned[r], i))
                     => returned[r][i].Languages = EmptyMap)

C8_Witness ==
    \E r \in Requests :
        /\ Succeeded(r) /\ Len(returned[r]) = 2 /\ nLang[r] = 1 /\ taken[r] = 2
        /\ returned[r][1].MostUsedLanguage # Nil
        /\ returned[r][1].Languages = Hist({<<"Go", 10>>})
        /\ returned[r][2].MostUsedLanguage = Nil
        /\ returned[r][2].ID # returned[r][1].ID
        /\ returned[r][2].Languages = EmptyMap

\* C9: the list returned has the length of the input list and carries, at
\* every position, the identity the input has at that position, whatever the
\* order in which the goroutines completed.
C9_OrderPreserved ==
    \A r \in Requests :
        Succeeded(r)
        => /\ Len(returned[r]) = Len(raw[r])
           /\ \A i \in 1..Len(raw[r]) : returned[r][i].ID = raw[r][i].id

C9_Witness ==
    \E r \in Requests :
        /\ Succeeded(r) /\ Len(returned[r]) = 2 /\ Len(drained[r]) = 2
        /\ returned[r][1].ID = 2 /\ returned[r][2].ID = 1
        /\ drained[r][1].RepositoryID = 1 /\ drained[r][2].RepositoryID = 2

\* C10: with a ceiling of at least 1, the goroutines launched that have not
\* released their slot, hence the language calls in flight, never number more
\* than the ceiling.
C10_ConcurrencyCeiling ==
    \A r \in Requests :
        (started /\ ceiling >= 1)
        => /\ Cardinality(Active(r)) <= ceiling
           /\ Cardinality(InFlight(r)) <= ceiling

C10_Witness ==
    \E r \in Requests :
        /\ Cardinality(InFlight(r)) = ceiling
        /\ pc[r] = "dispatch" /\ idx[r] <= Len(repos[r])
        /\ repos[r][idx[r]].MostUsedLanguage # Nil

\* The result FetchLanguagesForSingleRepository sends for record i.
ResultOf(r, i) ==
    [RepositoryID |-> repos[r][i].ID,
     Languages |-> LangResponse(repos[r][i].Owner, repos[r][i].Repository)]

Completed(r) == \A i \in Slots : worker[r][i] \in {"none", "finished"}

\* C11: the results channel is closed only once every goroutine launched has
\* finished, so no goroutine sends on it at or after the close: every send
\* finds the channel open and leaves it open.
C11_NoWriteAfterClose ==
    /\ [](\A r \in Requests : closed[r] => Completed(r))
    /\ [][\A r \in Requests : \A i \in Slots :
            (worker[r][i] = "answered" /\ worker'[r][i] # "answered")
            => /\ ~closed[r] /\ ~closed'[r]
               /\ worker'[r][i] = "sent"
               /\ results'[r] = Append(results[r], ResultOf(r, i))]_vars

C11_Witness ==
    \E r \in Requests :
        /\ pc[r] = "merge" /\ closed[r] /\ Len(results[r]) = 2
        /\ worker[r][1] = "finished" /\ worker[r][2] = "finished"
        /\ Len(wrote[r][1]) = 1 /\ Len(wrote[r][2]) = 1

\* C12: a goroutine whose language call succeeded has sent exactly one
\* result, carrying the identity of its record and the histogram answered; a
\* goroutine whose call failed has sent none; none sends twice, and none
\* sends before its call was answered.
C12_OneWritePerWorker ==
    \A r \in Requests : \A i \in Slots :
        /\ Len(wrote[r][i]) <= 1
        /\ worker[r][i] \in {"none", "spawned", "calling", "answered", "failed"}
           => wrote[r][i] = <<>>
        /\ werr[r][i] # "OK" => wrote[r][i] = <<>>
        /\ (worker[r][i] \in {"sent", "finished"} /\ werr[r][i] = "OK")
           => wrote[r][i] = <<ResultOf(r, i)>>

C12_Witness ==
    \E r \in Requests :
        /\ Succeeded(r)
        /\ worker[r][1] = "finished" /\ werr[r][1] = "FETCH_ERROR"
        /\ wrote[r][1] = <<>>
        /\ worker[r][2] = "finished" /\ werr[r][2] = "OK"
        /\ wrote[r][2] = <<[RepositoryID |-> 2,
                            Languages |-> Hist({<<"Java", 200>>, <<"HTML", 5>>})]>>

\* C13: GetRepositoriesLanguages, hence the request, returns only when every
\* goroutine it launched has completed: once the channel is drained or the
\* request answered, a goroutine was launched for every record with a hint and
\* none is still running.
C13_EnrichmentSynchronous ==
    \A r \in Requests :
        pc[r] \in {"merge", "done"}
        => /\ Completed(r)
           /\ slots[r] = 0
           /\ \A i \in 1..Len(repos[r]) :
                 repos[r][i].MostUsedLanguage # Nil => worker[r][i] = "finished"

C13_Witness ==
    \E r \in Requests :
        /\ pc[r] = "done" /\ outcome[r] = "OK" /\ Len(returned[r]) = 2
        /\ worker[r][1] = "finished" /\ worker[r][2] = "finished"
        /\ nLang[r] = 2 /\ werr[r][2] = "RATE_LIMITER_ERROR"

\* The language call of the goroutine of record i failed.
WorkerFailed(r, i) == werr[r][i] # "OK"

\* C14 as stated: when language calls fail (rate limiting included), the
\* request still succeeds with the whole list, the records of the failed
\* goroutines have an empty histogram, and every other record is enriched as
\* without failure: its own histogram with a hint, an empty one without.
C14_FailureAbsorbedAlways ==
    \A r \in Requests :
        (pc[r] = "done" /\ \E i \in Slots : WorkerFailed(r, i))
        => /\ outcome[r] = "OK"
           /\ Len(returned[r]) = Len(raw[r])
           /\ \A i \in 1..Len(returned[r]) :
                 IF WorkerFailed(r, i)
                 THEN returned[r][i].Languages.kv = {}
                 ELSE IF returned[r][i].MostUsedLanguage # Nil
                 THEN returned[r][i].Languages =
                         LangResponse(returned[r][i].Owner, returned[r][i].Repository)
                 ELSE returned[r][i].Languages = EmptyMap

\* C14 amended: as stated, for the records whose identity no other record of
\* the batch carries.
C14_FailureAbsorbed ==
    \A r \in Requests :
        (pc[r] = "done" /\ \E i \in Slots : WorkerFailed(r, i))
        => /\ outcome[r] = "OK"
           /\ Len(returned[r]) = Len(raw[r])
           /\ \A i \in 1..Len(returned[r]) :
                 UniqueIdentity(returned[r], i)
                 => IF WorkerFailed(r, i)
                    THEN returned[r][i].Languages.kv = {}
                    ELSE IF returned[r][i].MostUsedLanguage # Nil
                    THEN returned[r][i].Languages =
                            LangResponse(returned[r][i].Owner, returned[r][i].Repository)
                    ELSE returned[r][i].Languages = EmptyMap

C14_Witness ==
    \E r \in Requests :
        /\ Succeeded(r) /\ Len(returned[r]) = 2
        /\ werr[r][1] = "RATE_LIMITER_ERROR" /\ returned[r][1].ID = 1
        /\ returned[r][1].Languages.kv = {}
        /\ werr[r][2] = "OK" /\ returned[r][2].ID = 2
        /\ returned[r][2].Languages = Hist({<<"Java", 200>>, <<"HTML", 5>>})
        /\ response[r].status = 200

\* C15: the response carries 429 exactly when the service returned
\* RATE_LIMIT_REACHED, 500 for every other error it returned
\* (INVALID_DATA_FOUND, FETCH_ERROR), and 200 with the list when it returned
\* no error.
C15_StatusMapping ==
    \A r \in Requests :
        (pc[r] = "done" /\ outcome[r] # "PANIC")
        => /\ response[r].status = 429 <=> outcome[r] = "RATE_LIMIT_REACHED"
           /\ outcome[r] \in {"INVALID_DATA_FOUND", "FETCH_ERROR"}
              => response[r].status = 500
           /\ outcome[r] \notin {"OK", "RATE_LIMIT_REACHED"} => response[r].status = 500
           /\ outcome[r] = "OK"
              => response[r].status = 200 /\ response[r].body = returned[r]

C15_Witness ==
    \E r \in Requests :
        /\ pc[r] = "done" /\ outcome[r] = "RATE_LIMIT_REACHED" /\ nSearch[r] = 1
        /\ response[r].status = 429 /\ response[r].body.Code = "RATE_LIMIT_REACHED"

\* C16: FETCH_ERROR is returned only for a call that failed for another reason
\* than rate limiting; a search call refused by the remote rate limit ends the
\* request with the rate-limit failure (status 429).
C16_SearchRateLimitSurfaced ==
    \A r \in Requests :
        pc[r] = "done"
        => /\ outcome[r] = "FETCH_ERROR" => serr[r] = "other"
           /\ serr[r] = "ratelimit"
              => outcome[r] = "RATE_LIMIT_REACHED" /\ response[r].status = 429

\* C17: the bucket refills at capacity tokens per hour: an hour that passes
\* on an empty bucket leaves it full.
C17_FullRefillPerHour ==
    [][(tokens = 0 /\ clock' = clock + 1) => tokens' = burst]_vars

\* C18: when main() has started the service from the remote figures (Limit,
\* Remaining), the limiter holds Remaining tokens under a burst of Limit, and
\* keeps them until a request asks; the seeding AllowN(Limit - Remaining) is
\* granted for every 0 <= Remaining <= Limit, and only then is the service
\* started.
C18_Seeding ==
    /\ [][(~started /\ started')
          => /\ tokens' = coreRemaining'
             /\ coreRemaining' <= burst'
             /\ AllowN(burst', burst', burst' - coreRemaining').ok]_vars
    /\ []((started /\ granted = 0 /\ clock = 0) => tokens = coreRemaining)
    /\ [](\A limit \in 1..MaxBurst : \A remaining \in 0..limit :
             AllowN(limit, limit, limit - remaining) =
                [ok |-> TRUE, tokens |-> remaining])

C18_Witness ==
    /\ started /\ burst >= 2 /\ coreRemaining = 1 /\ tokens = 1 /\ granted = 0
    /\ \A r \in Requests : pc[r] = "idle"

\* The query expected for field values without whitespace: is:public, then
\* the filters of the non-empty fields in the order owner, license, language,
\* each after a single space.
HasSpace(value) == \E k \in 1..Len(value) : value[k] = Space
Includes(str, atom) == \E k \in 1..Len(str) : str[k] = atom
PositionOf(str, atom) == CHOOSE k \in 1..Len(str) : str[k] = atom
Spaced(prefix, value) == IF value = <<>> THEN <<>> ELSE <<Space, prefix>> \o value
ExpectedQuery(params) ==
    <<"is:public">> \o Spaced("owner:", params.Owner)
    \o Spaced("license:", params.License) \o Spaced("language:", params.Language)

\* C19: for every search query the string built starts with is:public, has
\* no whitespace at either end, and carries the owner:, license: and
\* language: filters of exactly the non-empty fields, in that order, each
\* filter (prefix and field value) after a single space; the whitespace left
\* inside is that of the field values.
C19_QueryString ==
    githubQuery # NotBuilt
    => /\ Includes(githubQuery, "is:public") /\ Head(githubQuery) = "is:public"
       /\ githubQuery[1] # Space /\ githubQuery[Len(githubQuery)] # Space
       /\ Includes(githubQuery, "owner:") <=> searchQuery.Owner # <<>>
       /\ Includes(githubQuery, "license:") <=> searchQuery.License # <<>>
       /\ Includes(githubQuery, "language:") <=> searchQuery.Language # <<>>
       /\ (Includes(githubQuery, "owner:") /\ Includes(githubQuery, "license:"))
          => PositionOf(githubQuery, "owner:") < PositionOf(githubQuery, "license:")
       /\ (Includes(githubQuery, "license:") /\ Includes(githubQuery, "language:"))
          => PositionOf(githubQuery, "license:") < PositionOf(githubQuery, "language:")
       /\ (Includes(githubQuery, "owner:") /\ Includes(githubQuery, "language:"))
          => PositionOf(githubQuery, "owner:") < PositionOf(githubQuery, "language:")
       /\ githubQuery = TrimSpace(ExpectedQuery(searchQuery))
       /\ (/\ ~HasSpace(searchQuery.Owner) /\ ~HasSpace(searchQuery.License)
           /\ ~HasSpace(searchQuery.Language))
          => githubQuery = ExpectedQuery(searchQuery)

C19_Witness ==
    /\ searchQuery = [Owner |-> <<"x">>, License |-> <<>>, Language |-> <<"x", Space>>]
    /\ githubQuery = <<"is:public", Space, "owner:", "x", Space, "language:", "x">>

\* C20: an entry without license object gives a record without license value,
\* which differs from the record of an entry whose license object has an
\* empty key and whose JSON has no license member; an entry with a license
\* object gives that license's key.
C20_LicenseMapping ==
    encoded # NotEncoded
    => /\ licensed.license = Nil => "license" \notin DOMAIN encoded[1]
       /\ licensed.license # Nil
          => "license" \in DOMAIN encoded[1] /\ encoded[1].license = licensed.license
       /\ \A other \in LicensedEntries :
             (licensed.license = Nil /\ other.license = "")
             => BuildRepositories(<<other>>).repos # BuildRepositories(<<licensed>>).repos

WithEmptyHistograms(list) ==
    [i \in 1..Len(list) |-> [list[i] EXCEPT !.Languages = EmptyMap]]

\* C21: GetRepositoriesLanguages called on a list without any hint returns
\* the same records in the same order, each with an empty histogram, without
\* launching a goroutine or making a language call; called again on its own
\* output it returns that output unchanged.
C21_MergeIdempotence ==
    \A r \in Requests :
        (pc[r] = "done" /\ pass[r] >= 1 /\ NoneHinted(input[r]))
        => /\ outcome[r] = "OK"
           /\ returned[r] = WithEmptyHistograms(input[r])
           /\ nLang[r] = 0
           /\ worker[r] = NoWorkers
           /\ pass[r] >= 2 => returned[r] = input[r]

C21_Witness ==
    \E r \in Requests :
        /\ pc[r] = "done" /\ pass[r] = 2 /\ Len(input[r]) = 2
        /\ NoneHinted(input[r]) /\ returned[r] = input[r]
        /\ returned[r][1].Languages = EmptyMap /\ returned[r][2].Languages = EmptyMap
        /\ returned[r][1].ID # returned[r][2].ID

\* Goroutines of the request whose failure drained the limiter.
Drains(r) == {i \in Slots : werr[r][i] = "RATE_LIMIT_REACHED"}

\* C22 as stated: a request that was admitted made exactly one search call and
\* one language call per record with a hint, each goroutine calling once also
\* when others failed, and took exactly 1 + h tokens from the limiter.
C22_CallAccountingAlways ==
    \A r \in Requests :
        /\ nSearch[r] <= 1
        /\ nLang[r] <= HintCount(raw[r])
        /\ Succeeded(r)
           => /\ nSearch[r] = 1
              /\ nLang[r] = HintCount(raw[r])
              /\ \A i \in 1..Len(repos[r]) :
                    worker[r][i] = (IF repos[r][i].MostUsedLanguage # Nil
                                    THEN "finished" ELSE "none")
              /\ taken[r] = 1 + HintCount(raw[r])

\* C22 amended: as stated, the tokens taken being 1 + h plus Burst() for each
\* goroutine whose rate-limit failure found the bucket full and drained it.
C22_CallAccounting ==
    \A r \in Requests :
        /\ nSearch[r] <= 1
        /\ nLang[r] <= HintCount(raw[r])
        /\ Succeeded(r)
           => /\ nSearch[r] = 1
              /\ nLang[r] = HintCount(raw[r])
              /\ \A i \in 1..Len(repos[r]) :
                    worker[r][i] = (IF repos[r][i].MostUsedLanguage # Nil
                                    THEN "finished" ELSE "none")
              /\ taken[r] = 1 + HintCount(raw[r]) + burst * Cardinality(Drains(r))

C22_Witness ==
    \E r \in Requests :
        /\ Succeeded(r) /\ HintCount(raw[r]) = 2 /\ nSearch[r] = 1 /\ nLang[r] = 2
        /\ werr[r][1] = "FETCH_ERROR" /\ werr[r][2] = "OK" /\ taken[r] = 3

\* C23: every call of GetRepositoriesLanguages, whatever the list and the
\* ceiling, returns, provided the goroutines are scheduled and the language
\* calls answer: no dispatcher, goroutine or collector stays blocked.
C23_Termination == (pc["r1"] = "dispatch") ~> (pc["r1"] = "done")

C23_Witness ==
    /\ pc["r1"] = "done" /\ ceiling = 1 /\ Len(input["r1"]) = 2
    /\ CountToLoad(input["r1"]) = 2
    /\ worker["r1"][1] = "finished" /\ worker["r1"][2] = "finished"

\* C24: no send on the results channel blocks: whenever the dispatching path
\* or a goroutine is about to send, the channel holds fewer results than its
\* capacity, the number of records; nothing is read before the close.
C24_SendNeverBlocks ==
    \A r \in Requests :
        /\ Len(results[r]) <= Len(repos[r])
        /\ (/\ pc[r] = "dispatch" /\ idx[r] <= Len(repos[r])
            /\ repos[r][idx[r]].MostUsedLanguage = Nil)
           => Len(results[r]) < Capacity(r)
        /\ \A i \in Slots :
              worker[r][i] = "answered" => Len(results[r]) < Capacity(r)
        /\ pc[r] = "dispatch" => drained[r] = <<>>

C24_Witness ==
    \E r \in Requests :
        /\ pc[r] = "dispatch" /\ ~closed[r] /\ Len(repos[r]) = 2
        /\ Len(results[r]) = 2 /\ Capacity(r) = 2
        /\ results[r][1].Languages = EmptyMap
        /\ results[r][2].Languages = Hist({<<"Go", 10>>})

\* C25: the slots held are those of the goroutines launched and not yet
\* returned; a goroutine releases its slot exactly when it returns, after a
\* send or after a failure alike; releases never exceed acquisitions; and when
\* GetRepositoriesLanguages drains and returns no slot is held.
C25_SlotDiscipline ==
    /\ [](\A r \in Requests :
            /\ slots[r] >= 0
            /\ slots[r] = Cardinality(Active(r))
            /\ pc[r] \in {"merge", "done"} => slots[r] = 0)
    /\ [][\A r \in Requests : \A i \in Slots :
            (worker[r][i] \in {"sent", "failed"} /\ worker'[r][i] # worker[r][i])
            => worker'[r][i] = "finished" /\ slots'[r] = slots[r] - 1]_vars
    /\ [][\A r \in Requests :
            slots'[r] < slots[r]
            => \E i \in Slots :
                  worker[r][i] \in {"sent", "failed"} /\ worker'[r][i] = "finished"]_vars

C25_Witness ==
    \E r \in Requests :
        /\ pc[r] = "done" /\ slots[r] = 0
        /\ worker[r][1] = "finished" /\ werr[r][1] = "RATE_LIMIT_REACHED"
        /\ worker[r][2] = "finished" /\ werr[r][2] = "OK"

\* The dispatching loop stands before swg.Add() for a record with a hint.
AtAdd(r) ==
    /\ pc[r] = "dispatch" /\ idx[r] <= Len(repos[r])
    /\ repos[r][idx[r]].MostUsedLanguage # Nil

\* C26: the dispatching loop can launch the next goroutine exactly when fewer
\* than ceiling goroutines of the call hold a slot; it is blocked only with
\* exactly ceiling of them, and a release leaves it able to proceed.
C26_BlocksOnlyAtSaturation ==
    /\ [](\A r \in Requests :
            AtAdd(r)
            => /\ (ENABLED DispatchLaunch(r)) <=> Cardinality(Active(r)) < ceiling
               /\ (~ENABLED DispatchLaunch(r)) => Cardinality(Active(r)) = ceiling)
    /\ [][\A r \in Requests :
            (AtAdd(r) /\ slots'[r] < slots[r]) => slots'[r] < ceiling]_vars

C26_Witness ==
    \E r \in Requests :
        /\ AtAdd(r) /\ ceiling = 2 /\ idx[r] = 2 /\ worker[r][1] = "sent"
        /\ slots[r] = 1

\* C27: within a call the record list changes only in the merge step, which
\* runs with every goroutine returned and the channel closed, reads the whole
\* channel and assigns the histograms at once; goroutines never change it.
C27_MergeRaceFree ==
    [][\A r \in Requests :
        (pc[r] \in {"dispatch", "merge"} /\ repos'[r] # repos[r])
        => /\ pc[r] = "merge" /\ pc'[r] = "done"
           /\ closed[r] /\ Completed(r)
           /\ drained'[r] = results[r] /\ results'[r] = <<>>
           /\ repos'[r] = MergeLanguages(repos[r], results[r])
           /\ worker'[r] = worker[r]]_vars

C27_Witness ==
    \E r \in Requests :
        /\ pc[r] = "done" /\ pass[r] = 1 /\ Len(input[r]) = 2
        /\ input[r][1].Languages = NilMap /\ input[r][2].Languages = NilMap
        /\ returned[r][1].Languages = Hist({<<"Go", 10>>})
        /\ returned[r][2].Languages = Hist({<<"Java", 200>>, <<"HTML", 5>>})

\* C28: when HandleRequestErrors has handled the remote rate-limit error of a
\* goroutine's language call, the limiter holds no token, whatever it held
\* before.
C28_DrainOnRateLimit ==
    [][\A r \in Requests : \A i \in Slots :
        (/\ worker[r][i] = "calling" /\ worker'[r][i] = "failed"
         /\ werr'[r][i] # "FETCH_ERROR")
        => tokens' = 0]_vars

\* The codes of the documented taxonomy a goroutine may get for its failure.
FailureCodes == {"RATE_LIMIT_REACHED", "FETCH_ERROR"}

\* C29: whatever the limiter holds, the error a goroutine gets from
\* HandleRequestErrors for its failed language call is RATE_LIMIT_REACHED or
\* FETCH_ERROR, never a code outside the taxonomy.
C29_FailureClassification ==
    \A r \in Requests : \A i \in Slots :
        worker[r][i] \in {"failed", "finished"} => werr[r][i] \in FailureCodes \cup {"OK"}

\* C30: the body written for an error of the service has code
\* RATE_LIMIT_REACHED and the rate-limit message for RATE_LIMIT_REACHED, and
\* for every other error the generic message with the error's own text as code.
C30_ErrorBody ==
    \A r \in Requests :
        (pc[r] = "done" /\ outcome[r] \notin {"OK", "PANIC"})
        => /\ response[r].body.Code = outcome[r]
           /\ response[r].body.Message =
                 (IF outcome[r] = "RATE_LIMIT_REACHED" THEN "rate limit" ELSE "internal")

\* Outbound calls made, and tokens obtained, by the requests being served.
CallsOf(r) == nSearch[r] + nLang[r]
TotalCalls == CallsOf("r1") + CallsOf("r2")
TotalTaken == taken["r1"] + taken["r2"]

\* C31: in every state, under any interleaving of the requests and of the
\* refills, each request has made at most as many outbound calls (search plus
\* language calls) as it has taken tokens, so that every call was preceded by
\* its token, and the calls of the requests being served together number at
\* most the tokens the limiter has handed out.
C31_BudgetCoversCalls ==
    /\ \A r \in Requests : CallsOf(r) <= taken[r]
    /\ TotalCalls <= TotalTaken
    /\ TotalTaken <= granted

C31_Witness ==
    /\ nSearch["r1"] = 1 /\ nLang["r1"] = 1
    /\ nSearch["r2"] = 1 /\ pc["r2"] = "searching"
    /\ TotalCalls = 3 /\ granted = 3

\* The request failed after its search call was issued, for one of the three
\* reasons of FetchLastHundredRepositories.
FailedAfterSearch(r) ==
    /\ pc[r] = "done"
    /\ nSearch[r] = 1
    /\ outcome[r] \in {"FETCH_ERROR", "INVALID_DATA_FOUND", "RATE_LIMIT_REACHED"}

SearchAnswered(r) ==
    /\ pc[r] = "searching"
    /\ pc'[r] # "searching"
    /\ raw'[r] # <<>>
    /\ AllWellFormed(raw'[r])

\* C33: a request is admitted to enrichment only when its h hinted records
\* number at most the tokens left once its search token is taken; with no
\* refill, a request that found the bucket full (burst K) and gets h >= K
\* hinted records ends with RATE_LIMIT_REACHED, and a request with h > K does
\* so whatever the bucket holds.
C33_AdmissionBound ==
    [][\A r \in Requests :
        SearchAnswered(r) =>
          /\ pc'[r] = "dispatch" => HintCount(raw'[r]) <= tokens
          /\ (HintCount(raw'[r]) >= burst /\ tokens = burst - 1)
             => (pc'[r] = "done" /\ outcome'[r] = "RATE_LIMIT_REACHED")
          /\ HintCount(raw'[r]) > burst
             => (pc'[r] = "done" /\ outcome'[r] = "RATE_LIMIT_REACHED")]_vars

C33_Witness ==
    /\ pc["r1"] = "done" /\ outcome["r1"] = "RATE_LIMIT_REACHED"
    /\ nSearch["r1"] = 1
    /\ AllWellFormed(raw["r1"])
    /\ burst = 2 /\ coreRemaining = 2 /\ granted = 1 /\ tokens = 1
    /\ HintCount(raw["r1"]) = burst

\* The search of r answered well-formed entries none of which has a hint (or
\* no entry at all), and the request went on from there.
ZeroHint(r) ==
    /\ nSearch[r] = 1
    /\ serr[r] = "none"
    /\ pc[r] \in {"dispatch", "merge", "done"}
    /\ AllWellFormed(raw[r])
    /\ HintCount(raw[r]) = 0

\* C34: when the search answers well-formed entries without any hint, the
\* empty result included, the request is admitted to enrichment whatever the
\* limiter holds, no token being taken for it; it makes no language call, has
\* taken the one token of its search, and returns with a nil error the records
\* of the entries, in order, each with an empty histogram.
C34_ZeroTokenAdmission ==
    /\ [](\A r \in Requests :
            ZeroHint(r) =>
              /\ nLang[r] = 0
              /\ taken[r] = 1
              /\ \A i \in Slots : worker[r][i] = "none"
              /\ pc[r] = "done" =>
                    /\ outcome[r] = "OK"
                    /\ response[r].status = 200
                    /\ returned[r] = WithEmptyHistograms(BuildRepositories(raw[r]).repos))
    /\ [][\A r \in Requests :
            (/\ pc[r] = "searching" /\ pc'[r] # "searching" /\ serr'[r] = "none"
             /\ AllWellFormed(raw'[r]) /\ HintCount(raw'[r]) = 0)
            => (pc'[r] = "dispatch" /\ tokens' = tokens)]_vars

C34_Witness ==
    /\ ZeroHint("r1")
    /\ pc["r1"] = "done" /\ outcome["r1"] = "OK"
    /\ tokens = 0
    /\ Len(returned["r1"]) = 2
    /\ returned["r1"][1].ID = returned["r1"][2].ID
    /\ \A i \in 1..2 : returned["r1"][i].Languages = EmptyMap

\* The wait group and channel state of the enrichment call of r.
PoolOf(r) == <<slots[r], worker[r], results[r], idx[r], closed[r]>>
TotalInFlight == Cardinality(InFlight("r1")) + Cardinality(InFlight("r2"))

\* C35: each enrichment call has its own slot pool of size ceiling: the
\* language calls in flight of one call never exceed the ceiling and those of
\* the two requests together never exceed twice the ceiling; a call whose own
\* pool has a free slot can launch its next goroutine whatever the other call
\* holds; and no step of one call changes the pool of the other.
C35_CeilingPerCall ==
    /\ [](started =>
            /\ \A r \in Requests :
                  /\ slots[r] <= ceiling
                  /\ Cardinality(InFlight(r)) <= ceiling
                  /\ (AtAdd(r) /\ slots[r] < ceiling) => ENABLED DispatchLaunch(r)
            /\ TotalInFlight <= Cardinality(Requests) * ceiling)
    /\ [][PoolOf("r1")' = PoolOf("r1") \/ PoolOf("r2")' = PoolOf("r2")]_vars

C35_Witness ==
    /\ ceiling = 1
    /\ InFlight("r1") = {1} /\ InFlight("r2") = {1}
    /\ TotalInFlight > ceiling

\* The identities of the list are pairwise distinct.
DistinctIdentities(list) == \A i \in 1..Len(list) : UniqueIdentity(list, i)

\* What the call outcomes alone determine for record i of the input of r: an
\* empty histogram without hint, the histogram answered when the language
\* call succeeded, the histogram the record came with when it failed.
DeterminedLanguages(r, i) ==
    IF input[r][i].MostUsedLanguage = Nil THEN EmptyMap
    ELSE IF werr[r][i] = "OK"
         THEN LangResponse(input[r][i].Owner, input[r][i].Repository)
         ELSE input[r][i].Languages

\* Positions, in drain order, of the results carrying the identity id.
DrainedFor(r, id) == {k \in 1..Len(drained[r]) : drained[r][k].RepositoryID = id}
LastDrainedFor(r, id) ==
    CHOOSE k \in DrainedFor(r, id) : \A m \in DrainedFor(r, id) : m <= k

\* C36: the list GetRepositoriesLanguages returns has the records of its
\* input in the same order and differs from it in the histograms only; with
\* pairwise distinct identities each histogram is the one the outcome of the
\* record's own language call determines, whatever order the goroutines
\* completed in; and with or without shared identities, a record for whose
\* identity results were drained carries the histogram of the last of them.
C36_MergeDeterminism ==
    \A r \in Requests :
        (pc[r] = "done" /\ outcome[r] = "OK" /\ pass[r] >= 1)
        => /\ Len(returned[r]) = Len(input[r])
           /\ \A i \in 1..Len(input[r]) :
                /\ [returned[r][i] EXCEPT !.Languages = input[r][i].Languages] = input[r][i]
                /\ DistinctIdentities(input[r])
                   => returned[r][i].Languages = DeterminedLanguages(r, i)
                /\ DrainedFor(r, input[r][i].ID) # {}
                   => returned[r][i].Languages =
                         drained[r][LastDrainedFor(r, input[r][i].ID)].Languages

C36_Witness ==
    /\ pc["r1"] = "done" /\ outcome["r1"] = "OK"
    /\ Len(input["r1"]) = 2 /\ DistinctIdentities(input["r1"])
    /\ input["r1"][1].ID = 1 /\ input["r1"][2].ID = 2
    /\ werr["r1"][1] = "OK" /\ werr["r1"][2] = "OK"
    /\ Len(drained["r1"]) = 2
    /\ drained["r1"][1].RepositoryID = 2 /\ drained["r1"][2].RepositoryID = 1
    /\ returned["r1"][1].Languages = LangResponse(OwnerLogin, "a")

====
